---- MODULE Spec2Model ----
(***************************************************************************)
(* A model of ocidir (src/src/lib.rs): the content-addressed blob store    *)
(* under blobs/sha256, the BlobWriter / GzipLayerWriter write pipeline,    *)
(* and the manifest / index.json operations of OciDir.                     *)
(*                                                                         *)
(* File contents, digests and JSON documents are sequences of symbols;     *)
(* every symbol is a string, so that a digest can be embedded in a JSON    *)
(* document that is itself hashed.  SHA-256 is modelled as a collision-    *)
(* free function of the absorbed message.                                  *)
(***************************************************************************)
EXTENDS Naturals, Sequences, FiniteSets, TLC

\* ------------------------------------------------------------------ bounds
\* Longest buffer handed to one write() call.
MaxChunk == 1
\* Most write() calls made on one writer.
MaxWrites == 2
\* BlobWriters / GzipLayerWriters the program creates.
NumWriters == 2

Bytes == {"a", "b"}
Writers == 1..NumWriters

RECURSIVE SeqsUpTo(_, _)
SeqsUpTo(S, n) ==
    IF n = 0 THEN {<<>>}
    ELSE LET shorter == SeqsUpTo(S, n - 1)
         IN  shorter \cup {Append(s, x) : s \in shorter, x \in S}

\* The buffers a caller passes to write(): every byte string up to MaxChunk.
Chunks == SeqsUpTo(Bytes, MaxChunk)

\* ------------------------------------------------------- SHA-256 (openssl)
\* Hasher::new(MessageDigest::sha256()): nothing absorbed yet.
HasherNew == <<>>

\* Hasher::update(buf): absorb buf after what was absorbed before.
HasherUpdate(h, buf) == h \o buf

\* hex::encode(hasher.finish()): the digest of the absorbed message, a
\* string of one symbol, different for different messages.
HasherFinishHex(h) == <<ToString(h)>>

\* The digest of a whole file, as fsck recomputes it: a fresh hasher fed the
\* content in one piece.
Sha256Hex(content) == HasherFinishHex(HasherUpdate(HasherNew, content))

\* ------------------------------------------------------------- BlobWriter
NoBlob == [sha256 |-> <<>>, size |-> 0]

\* BlobWriter::new: a fresh hasher, an empty private temporary file, size 0.
BlobWriterNew == [hash |-> HasherNew, target |-> <<>>, size |-> 0]

\* A write that leaves the bytes out of the digest.
BlobWriterWrite_NoHash(bw, srcbuf) ==
    [hash   |-> bw.hash,
     target |-> bw.target \o srcbuf,
     size   |-> bw.size + Len(srcbuf)]

\* A write that counts one byte too many.
BlobWriterWrite_SizeOff(bw, srcbuf) ==
    [hash   |-> HasherUpdate(bw.hash, srcbuf),
     target |-> bw.target \o srcbuf,
     size   |-> bw.size + Len(srcbuf) + 1]

\* <BlobWriter as Write>::write: hash, append to the temporary file, count.
BlobWriterWrite(bw, srcbuf) ==
    [hash   |-> HasherUpdate(bw.hash, srcbuf),
     target |-> bw.target \o srcbuf,
     size   |-> bw.size + Len(srcbuf)]

\* A rename that never replaces an entry: when destname is taken the file
\* is kept beside it under another name.
TempFileReplace_Beside(dir, destname, file) ==
    [n \in (DOMAIN dir) \cup {IF destname \in DOMAIN dir
                              THEN destname \o <<"~">> ELSE destname}
        |-> IF n \in DOMAIN dir THEN dir[n] ELSE file]

\* A rename that leaves only the new entry in the directory.
TempFileReplace_Only(dir, destname, file) == [n \in {destname} |-> file]

\* TempFile::replace(destname): the temporary file becomes the directory
\* entry destname of dir, replacing an entry of that name.  A directory is a
\* function from file names (strings) to file contents; dir stands for
\* BLOBDIR, "blobs/sha256", and destname for the name inside it.
TempFileReplace(dir, destname, file) ==
    [n \in (DOMAIN dir) \cup {destname} |-> IF n = destname THEN file ELSE dir[n]]

\* BlobWriter::complete: the name is the digest of what was hashed; the
\* result is the blob directory after the rename and the Blob returned.
BlobWriterComplete(dir, bw) ==
    LET sha256 == HasherFinishHex(bw.hash)
    IN  [dir  |-> TempFileReplace(dir, sha256, bw.target),
         blob |-> [sha256 |-> sha256, size |-> bw.size]]

\* -------------------------------------------------- flate2 GzEncoder<Vec<u8>>
\* The symbols of a gzip stream: the header, one code per input byte, the
\* end-of-stream code, then the CRC and length of the input.
GzHeader == <<"GZ_MAGIC">>
GzEndOfStream == "GZ_EOS"
DeflateLit(b) == ToString(<<b>>)
DeflateCodes(buf) == [i \in 1..Len(buf) |-> DeflateLit(buf[i])]
ByteOrd(b) == IF b = "a" THEN 1 ELSE 2

RECURSIVE CrcUpdate(_, _)
CrcUpdate(crc, buf) ==
    IF buf = <<>> THEN crc
    ELSE CrcUpdate(2 * crc + ByteOrd(Head(buf)), Tail(buf))

\* GzEncoder::new(Vec::with_capacity(8192), level): the header is written
\* lazily, `pending` is what deflate holds back, `zbuf` the encoder's own
\* output buffer, `obj` the Vec<u8> the encoder writes into.
GzEncoderNew ==
    [header |-> GzHeader, pending |-> <<>>, zbuf |-> <<>>, obj |-> <<>>,
     crc |-> 0, amount |-> 0]

\* A clear() that leaves the Vec as it is.
GzGetMutClear_Keep(enc) == enc

\* compressor.get_mut().clear(): empty the Vec the encoder writes into.
GzGetMutClear(enc) == [enc EXCEPT !.obj = <<>>]

\* GzEncoder::write_all(srcbuf).  An empty buffer makes no write() call.
\* Otherwise: write_header() puts the header in the Vec the first time;
\* zio::Writer::write dumps the output buffered by the previous call into
\* the Vec, deflate consumes srcbuf and emits the first `emit` of the codes
\* it holds into the buffer; the CRC and the length follow the input.
GzWriteAll(enc, srcbuf, emit) ==
    IF srcbuf = <<>> THEN enc
    ELSE LET codes == enc.pending \o DeflateCodes(srcbuf)
             k == IF emit < Len(codes) THEN emit ELSE Len(codes)
         IN  [header  |-> <<>>,
              obj     |-> enc.obj \o enc.header \o enc.zbuf,
              zbuf    |-> SubSeq(codes, 1, k),
              pending |-> SubSeq(codes, k + 1, Len(codes)),
              crc     |-> CrcUpdate(enc.crc, srcbuf),
              amount  |-> enc.amount + Len(srcbuf)]

\* GzEncoder::finish(): the header if it was never written, everything still
\* buffered, the end of the deflate stream, the 8-byte trailer; the Vec is
\* returned.
GzFinish(enc) ==
    enc.obj \o enc.header \o enc.zbuf \o enc.pending
        \o <<GzEndOfStream, ToString(enc.crc), ToString(enc.amount)>>

\* -------------------------------------------------------- GzipLayerWriter
NoLayer == [blob |-> NoBlob, uncompressed_sha256 |-> <<>>]

\* GzipLayerWriter::new
GzipLayerWriterNew ==
    [bw |-> BlobWriterNew, uncompressed_hash |-> HasherNew,
     compressor |-> GzEncoderNew]

\* <GzipLayerWriter as Write>::write
GzipLayerWriterWrite(gw, srcbuf, emit) ==
    LET cleared == GzGetMutClear(gw.compressor)
        compressor == GzWriteAll(cleared, srcbuf, emit)
    IN  [bw                |-> BlobWriterWrite(gw.bw, compressor.obj),
         uncompressed_hash |-> HasherUpdate(gw.uncompressed_hash, srcbuf),
         compressor        |-> compressor]

\* GzipLayerWriter::complete: the rest of the stream goes to the BlobWriter,
\* which is completed; the result is the blob directory and the Layer.
GzipLayerWriterComplete(dir, gw) ==
    LET buf == GzFinish(GzGetMutClear(gw.compressor))
        done == BlobWriterComplete(dir, BlobWriterWrite(gw.bw, buf))
    IN  [dir   |-> done.dir,
         layer |-> [blob |-> done.blob,
                    uncompressed_sha256 |-> HasherFinishHex(gw.uncompressed_hash)]]

\* What a gzip decoder makes of a stream: the input bytes, or nothing when the
\* stream is not one well-formed member with a matching trailer.
Gunzip(stream) ==
    LET h == Len(GzHeader)
        n == Len(stream)
    IN  IF n < h + 3 \/ SubSeq(stream, 1, h) # GzHeader
             \/ stream[n - 2] # GzEndOfStream
        THEN [ok |-> FALSE, data |-> <<>>]
        ELSE LET codes == SubSeq(stream, h + 1, n - 3)
                 literal == \A i \in 1..Len(codes) :
                                \E b \in Bytes : DeflateLit(b) = codes[i]
                 data == [i \in 1..Len(codes) |->
                             CHOOSE b \in Bytes : DeflateLit(b) = codes[i]]
             IN  IF literal /\ stream[n - 1] = ToString(CrcUpdate(0, data))
                            /\ stream[n] = ToString(Len(data))
                 THEN [ok |-> TRUE, data |-> data]
                 ELSE [ok |-> FALSE, data |-> <<>>]

\* ------------------------------------------------------- OCI documents
\* An Option<T> is a sequence: <<>> is None, <<x>> is Some(x).  The
\* annotations of a descriptor or manifest hold at most one entry, <<k, v>>.
OCI_TAG_ANNOTATION == "org.opencontainers.image.ref.name"
SCHEMA_VERSION == "2"
MediaTypeImageManifest == "application/vnd.oci.image.manifest.v1+json"
MediaTypeImageConfig == "application/vnd.oci.image.config.v1+json"
MediaTypeImageLayerGzip == "application/vnd.oci.image.layer.v1.tar+gzip"

\* Blob::digest_id: format!("sha256:{}", self.sha256)
DigestId(sha256) == <<"sha256", ":">> \o sha256

\* Blob::descriptor().media_type(media_type).build()
BlobDescriptor(blob, media_type) ==
    [mediaType |-> media_type, digest |-> DigestId(blob.sha256), size |-> blob.size,
     annotations |-> <<>>, platform |-> <<>>]

\* empty_config_descriptor
EmptyConfigSize == 7023
empty_config_descriptor ==
    [mediaType |-> MediaTypeImageConfig,
     digest |-> DigestId(<<"a5b2b2c507a0944348e0303114d8d93aaaa081732b86451d9bce1f432a537bc7">>),
     size |-> EmptyConfigSize, annotations |-> <<>>, platform |-> <<>>]

\* new_empty_manifest().build()
new_empty_manifest ==
    [schemaVersion |-> SCHEMA_VERSION, config |-> empty_config_descriptor,
     layers |-> <<>>, annotations |-> <<>>]

\* ImageConfigurationBuilder::default().build()
EmptyConfig == [diff_ids |-> <<>>, history |-> <<>>]

\* serde_json output of a Descriptor: absent optional fields are left out.
DescriptorJson(d) ==
    <<"{", "mediaType", d.mediaType, "digest">> \o d.digest
        \o <<"size", ToString(d.size)>>
        \o (IF d.annotations = <<>> THEN <<>> ELSE <<"annotations">> \o d.annotations)
        \o (IF d.platform = <<>> THEN <<>> ELSE <<"platform">> \o d.platform)
        \o <<"}">>

RECURSIVE DescriptorListJson(_)
DescriptorListJson(ds) ==
    IF ds = <<>> THEN <<>>
    ELSE DescriptorJson(Head(ds)) \o DescriptorListJson(Tail(ds))

\* serde_json output of an ImageManifest
ManifestJson(m) ==
    <<"{", "schemaVersion", m.schemaVersion, "config">> \o DescriptorJson(m.config)
        \o <<"layers", "[">> \o DescriptorListJson(m.layers) \o <<"]">>
        \o (IF m.annotations = <<>> THEN <<>> ELSE <<"annotations">> \o m.annotations)
        \o <<"}">>

\* serde_json output of an ImageIndex
IndexJson(idx) ==
    <<"{", "schemaVersion", idx.schemaVersion, "manifests", "[">>
        \o DescriptorListJson(idx.manifests) \o <<"]", "}">>

RECURSIVE FlattenJson(_)
FlattenJson(items) ==
    IF items = <<>> THEN <<>> ELSE Head(items) \o <<",">> \o FlattenJson(Tail(items))

\* serde_json output of an ImageConfiguration
ConfigJson(c) ==
    <<"{", "rootfs", "[">> \o FlattenJson(c.diff_ids) \o <<"]", "history", "[">>
        \o FlattenJson([i \in 1..Len(c.history) |->
                           <<c.history[i].created, c.history[i].created_by>>])
        \o <<"]", "}">>

\* The numbers a size field is read back as.
MaxSize == 200
Sizes == (0..MaxSize) \cup {EmptyConfigSize}
ParseError == [ok |-> FALSE, next |-> 0, val |-> <<>>]
At(toks, i) == IF i \in 1..Len(toks) THEN toks[i] ELSE "<eof>"

RECURSIVE FindToken(_, _, _)
FindToken(toks, i, tok) ==
    IF i > Len(toks) THEN 0
    ELSE IF toks[i] = tok THEN i ELSE FindToken(toks, i + 1, tok)

\* serde_json reading a Descriptor that starts at token i; its "size" key is
\* token j.  The optional fields follow the size in a fixed order.
HasAnnotations(toks, j) == At(toks, j + 2) = "annotations"
PlatformAt(toks, j) == IF HasAnnotations(toks, j) THEN j + 5 ELSE j + 2
HasPlatform(toks, j) == At(toks, PlatformAt(toks, j)) = "platform"
DescriptorEnd(toks, j) ==
    IF HasPlatform(toks, j) THEN PlatformAt(toks, j) + 2 ELSE PlatformAt(toks, j)

ParseDescriptorAt(toks, i, j) ==
    IF \/ At(toks, i) # "{" \/ At(toks, i + 1) # "mediaType"
       \/ At(toks, i + 3) # "digest" \/ j = 0
       \/ ~ \E n \in Sizes : ToString(n) = At(toks, j + 1)
       \/ At(toks, DescriptorEnd(toks, j)) # "}"
    THEN ParseError
    ELSE [ok |-> TRUE, next |-> DescriptorEnd(toks, j) + 1,
          val |-> [mediaType |-> toks[i + 2],
                   digest |-> SubSeq(toks, i + 4, j - 1),
                   size |-> CHOOSE n \in Sizes : ToString(n) = toks[j + 1],
                   annotations |-> IF HasAnnotations(toks, j)
                                   THEN SubSeq(toks, j + 3, j + 4) ELSE <<>>,
                   platform |-> IF HasPlatform(toks, j)
                                THEN <<toks[PlatformAt(toks, j) + 1]>> ELSE <<>>]]

ParseDescriptor(toks, i) == ParseDescriptorAt(toks, i, FindToken(toks, i + 4, "size"))

RECURSIVE ParseDescriptorList(_, _, _)
ParseDescriptorNext(toks, d, acc) ==
    IF d.ok THEN ParseDescriptorList(toks, d.next, Append(acc, d.val)) ELSE ParseError

ParseDescriptorList(toks, i, acc) ==
    IF At(toks, i) = "]" THEN [ok |-> TRUE, next |-> i + 1, val |-> acc]
    ELSE ParseDescriptorNext(toks, ParseDescriptor(toks, i), acc)

\* serde_json reading an ImageManifest: the configuration descriptor c, the
\* layers ls, then the optional annotations.
ParseManifestEnd(toks, c, ls, e) ==
    IF ~ ls.ok THEN ParseError
    ELSE IF At(toks, e) # "}" \/ e # Len(toks) THEN ParseError
    ELSE [ok |-> TRUE, next |-> e + 1,
          val |-> [schemaVersion |-> toks[3], config |-> c.val, layers |-> ls.val,
                   annotations |-> IF e > ls.next
                                   THEN SubSeq(toks, ls.next + 1, ls.next + 2)
                                   ELSE <<>>]]

ParseManifestTail(toks, c, ls) ==
    ParseManifestEnd(toks, c, ls,
        IF ls.ok /\ At(toks, ls.next) = "annotations" THEN ls.next + 3 ELSE ls.next)

ParseManifestLayers(toks, c) ==
    IF \/ At(toks, 1) # "{" \/ At(toks, 2) # "schemaVersion" \/ At(toks, 4) # "config"
       \/ ~ c.ok
    THEN ParseError
    ELSE IF At(toks, c.next) # "layers" \/ At(toks, c.next + 1) # "["
    THEN ParseError
    ELSE ParseManifestTail(toks, c, ParseDescriptorList(toks, c.next + 2, <<>>))

ParseManifest(toks) == ParseManifestLayers(toks, ParseDescriptor(toks, 5))

\* serde_json reading an ImageIndex
ParseIndexEnd(toks, ms) ==
    IF ~ ms.ok THEN ParseError
    ELSE IF At(toks, ms.next) # "}" \/ ms.next # Len(toks) THEN ParseError
    ELSE [ok |-> TRUE, next |-> ms.next + 1,
          val |-> [schemaVersion |-> toks[3], manifests |-> ms.val]]

ParseIndex(toks) ==
    IF \/ At(toks, 1) # "{" \/ At(toks, 2) # "schemaVersion" \/ At(toks, 4) # "manifests"
       \/ At(toks, 5) # "["
    THEN ParseError
    ELSE ParseIndexEnd(toks, ParseDescriptorList(toks, 6, <<>>))

\* ------------------------------------------------------- store operations
Ok(v) == [ok |-> TRUE, val |-> v, err |-> <<>>]
Err(e) == [ok |-> FALSE, val |-> <<>>, err |-> e]

\* write_json_blob: a BlobWriter is created, the serializer writes the
\* document into it piece by piece, the writer is completed.
RECURSIVE SerializeInto(_, _)
SerializeInto(bw, toks) ==
    IF toks = <<>> THEN bw
    ELSE SerializeInto(BlobWriterWrite(bw, <<Head(toks)>>), Tail(toks))

\* A write_json_blob that returns the descriptor of a writer it never completed.
write_json_blob_Unpublished(dir, json, media_type) ==
    [dir |-> dir,
     desc |-> BlobDescriptor(
                  BlobWriterComplete(dir, SerializeInto(BlobWriterNew, json)).blob,
                  media_type)]

write_json_blob(dir, json, media_type) ==
    LET done == BlobWriterComplete(dir, SerializeInto(BlobWriterNew, json))
    IN  [dir |-> done.dir, desc |-> BlobDescriptor(done.blob, media_type)]

\* The components of a path: split on "/", empty components dropped.
RECURSIVE Components(_, _, _)
Components(s, cur, acc) ==
    IF s = <<>> THEN (IF cur = <<>> THEN acc ELSE Append(acc, cur))
    ELSE IF Head(s) = "/"
         THEN Components(Tail(s), <<>>, IF cur = <<>> THEN acc ELSE Append(acc, cur))
         ELSE Components(Tail(s), Append(cur, Head(s)), acc)

\* parse_one_filename: Utf8Path::new(s).file_name(), the last component of
\* the path when it is a normal name.  A "." component counts only at the
\* start of a relative path.
FileNameOf(all, kept) ==
    IF kept = {} THEN Err(<<"Invalid filename">>)
    ELSE IF all[CHOOSE i \in kept : \A j \in kept : j <= i] \in {<<".">>, <<".", ".">>}
    THEN Err(<<"Invalid filename">>)
    ELSE Ok(all[CHOOSE i \in kept : \A j \in kept : j <= i])

NormalComponents(s, all) ==
    {i \in 1..Len(all) : all[i] # <<".">> \/ (i = 1 /\ (s = <<>> \/ Head(s) # "/"))}

FileName(s, all) == FileNameOf(all, NormalComponents(s, all))

\* A parse_one_filename that accepts any string that is not empty, as it is.
parse_one_filename_Whole(s) ==
    IF s = <<>> THEN Err(<<"Invalid filename">>) ELSE Ok(s)

parse_one_filename(s) == FileName(s, Components(s, <<>>, <<>>))

\* OciDir::parse_descriptor_to_path: the name of the blob under BLOBDIR.
BlobPath(alg, hashpart) ==
    IF ~ alg.ok THEN alg
    ELSE IF alg.val # <<"sha256">> THEN Err(<<"Unsupported digest algorithm">>)
    ELSE parse_one_filename(hashpart)

SplitDigest(digest, colon) ==
    IF colon = 0 THEN Err(<<"Invalid digest">>)
    ELSE BlobPath(parse_one_filename(SubSeq(digest, 1, colon - 1)),
                  SubSeq(digest, colon + 1, Len(digest)))

parse_descriptor_to_path(desc) ==
    SplitDigest(desc.digest, FindToken(desc.digest, 1, ":"))

\* OciDir::read_blob: the content of the file the descriptor names.
OpenBlob(dir, path) ==
    IF ~ path.ok THEN path
    ELSE IF path.val \notin DOMAIN dir THEN Err(<<"No such file">>)
    ELSE Ok(dir[path.val])

read_blob(dir, desc) == OpenBlob(dir, parse_descriptor_to_path(desc))

\* OciDir::read_json_blob::<ImageManifest>
ManifestFromReader(parsed) ==
    IF parsed.ok THEN Ok(parsed.val) ELSE Err(<<"Parsing object">>)

ManifestFromBlob(blob) ==
    IF ~ blob.ok THEN blob ELSE ManifestFromReader(ParseManifest(blob.val))

read_json_blob(dir, desc) == ManifestFromBlob(read_blob(dir, desc))

\* index.json: absent, or a file with a content.
NoFile == [exists |-> FALSE, content |-> <<>>]
File(content) == [exists |-> TRUE, content |-> content]

\* OciDir::read_index: Ok(None) when index.json is absent.
IndexFromReader(idx) ==
    IF idx.ok THEN Ok(<<idx.val>>) ELSE Err(<<"Parsing index">>)

read_index(file) ==
    IF ~ file.exists THEN Ok(<<>>) ELSE IndexFromReader(ParseIndex(file.content))

\* OciDir::descriptor_is_tagged
descriptor_is_tagged(d, tag) ==
    /\ d.annotations # <<>>
    /\ d.annotations[1] = OCI_TAG_ANNOTATION
    /\ d.annotations[2] = tag

\* insert_manifest, the descriptor it builds from write_json_blob's: the
\* platform, and the tag annotation when a tag is given.
ManifestDescriptor(desc, tag, platform) ==
    [desc EXCEPT !.platform = <<platform>>,
                 !.annotations = IF tag = <<>> THEN desc.annotations
                                 ELSE <<OCI_TAG_ANNOTATION, tag[1]>>]

\* An insertion that keeps the descriptors already carrying the tag.
InsertIntoIndex_NoRetain(index, desc, tag) ==
    IF index # <<>>
    THEN [index[1] EXCEPT !.manifests = Append(index[1].manifests, desc)]
    ELSE [schemaVersion |-> SCHEMA_VERSION, manifests |-> <<desc>>]

\* An insertion written in two documents, of which this is the first: the
\* descriptors carrying the tag are gone and the new one is not yet there.
InsertIntoIndex_Dropped(index, desc, tag) ==
    IF index # <<>>
    THEN [index[1] EXCEPT !.manifests =
             IF tag # <<>>
             THEN SelectSeq(index[1].manifests,
                            LAMBDA d : ~ descriptor_is_tagged(d, tag[1]))
             ELSE index[1].manifests]
    ELSE [schemaVersion |-> SCHEMA_VERSION, manifests |-> <<>>]

\* An insertion that writes an index of the new descriptor alone.
InsertIntoIndex_Fresh(index, desc, tag) ==
    [schemaVersion |-> SCHEMA_VERSION, manifests |-> <<desc>>]

\* An insertion that drops the descriptors of the same digest, not those
\* carrying the tag.
InsertIntoIndex_ByDigest(index, desc, tag) ==
    IF index # <<>>
    THEN [index[1] EXCEPT !.manifests =
             Append(SelectSeq(index[1].manifests,
                              LAMBDA d : d.digest # desc.digest),
                    desc)]
    ELSE [schemaVersion |-> SCHEMA_VERSION, manifests |-> <<desc>>]

\* insert_manifest, the index it writes from the index it read.
InsertIntoIndex(index, desc, tag) ==
    IF index # <<>>
    THEN [index[1] EXCEPT !.manifests =
             Append(IF tag # <<>>
                    THEN SelectSeq(index[1].manifests,
                                   LAMBDA d : ~ descriptor_is_tagged(d, tag[1]))
                    ELSE index[1].manifests,
                    desc)]
    ELSE [schemaVersion |-> SCHEMA_VERSION, manifests |-> <<desc>>]

\* replace_with_single_manifest, the index it writes.
SingleManifestIndex(desc) ==
    [schemaVersion |-> SCHEMA_VERSION, manifests |-> <<desc>>]

RECURSIVE FirstTagged(_, _)
FirstTagged(manifests, tag) ==
    IF manifests = <<>> THEN <<>>
    ELSE IF descriptor_is_tagged(Head(manifests), tag) THEN <<Head(manifests)>>
    ELSE FirstTagged(Tail(manifests), tag)

\* OciDir::find_manifest_with_tag
SomeManifest(m) == IF m.ok THEN Ok(<<m.val>>) ELSE m

FoundManifest(dir, img) ==
    IF img = <<>> THEN Ok(<<>>) ELSE SomeManifest(read_json_blob(dir, img[1]))

FindInIndex(idx, dir, tag) ==
    IF ~ idx.ok THEN Err(<<"Parsing index">>)
    ELSE FoundManifest(dir, FirstTagged(idx.val.manifests, tag))

find_manifest_with_tag(file, dir, tag) ==
    IF ~ file.exists THEN Err(<<"Failed to open index.json">>)
    ELSE FindInIndex(ParseIndex(file.content), dir, tag)

\* OciDir::read_manifest_and_descriptor
ManifestAndDescriptor(m, desc) == IF m.ok THEN Ok(<<m.val, desc>>) ELSE m

\* A reader that takes the first of several manifests.
SingleManifest_First(idx, dir) ==
    IF ~ idx.ok THEN Err(<<"Parsing index">>)
    ELSE IF Len(idx.val.manifests) = 0 THEN Err(<<"No manifests found">>)
    ELSE ManifestAndDescriptor(read_json_blob(dir, idx.val.manifests[1]),
                               idx.val.manifests[1])

SingleManifest(idx, dir) ==
    IF ~ idx.ok THEN Err(<<"Parsing index">>)
    ELSE IF Len(idx.val.manifests) = 0 THEN Err(<<"No manifests found">>)
    ELSE IF Len(idx.val.manifests) # 1
    THEN Err(<<"Expected exactly 1 manifest, found", ToString(Len(idx.val.manifests))>>)
    ELSE ManifestAndDescriptor(read_json_blob(dir, idx.val.manifests[1]),
                               idx.val.manifests[1])

read_manifest_and_descriptor(file, dir) ==
    IF ~ file.exists THEN Err(<<"Failed to open index.json">>)
    ELSE SingleManifest(ParseIndex(file.content), dir)

\* OciDir::read_manifest
FirstOf(r) == IF r.ok THEN Ok(r.val[1]) ELSE r

read_manifest(file, dir) == FirstOf(read_manifest_and_descriptor(file, dir))

\* A push whose descriptor names the uncompressed content.
PushLayerManifest_Uncompressed(m, layer, annotations) ==
    LET blobdesc == [BlobDescriptor([layer.blob EXCEPT
                                        !.sha256 = layer.uncompressed_sha256],
                                    MediaTypeImageLayerGzip)
                        EXCEPT !.annotations = annotations]
    IN  [m EXCEPT !.layers = Append(m.layers, blobdesc)]

\* OciDir::push_layer_annotated, the manifest it leaves.
PushLayerManifest(m, layer, annotations) ==
    LET blobdesc == [BlobDescriptor(layer.blob, MediaTypeImageLayerGzip)
                        EXCEPT !.annotations = annotations]
    IN  [m EXCEPT !.layers = Append(m.layers, blobdesc)]

\* A push that records the digest of the compressed blob as diff_id.
PushLayerConfig_Compressed(c, layer, description, now) ==
    [diff_ids |-> Append(c.diff_ids, DigestId(layer.blob.sha256)),
     history  |-> Append(c.history, [created |-> now, created_by |-> description])]

\* OciDir::push_layer_annotated, the configuration it leaves.
PushLayerConfig(c, layer, description, now) ==
    [diff_ids |-> Append(c.diff_ids, DigestId(layer.uncompressed_sha256)),
     history  |-> Append(c.history, [created |-> now, created_by |-> description])]

\* ------------------------------------------------------------------ fsck
BLOB_SHA256_LEN == 64
\* The characters of the names that are not digests; every other symbol of
\* a name is a hex digest, BLOB_SHA256_LEN characters long.
NameChars == {"x", "y"}
SymLen(c) == IF c \in NameChars THEN 1 ELSE BLOB_SHA256_LEN
RECURSIVE NameLen(_)
NameLen(name) == IF name = <<>> THEN 0 ELSE SymLen(Head(name)) + NameLen(Tail(name))

\* An fsck that compares no digest.
FsckFile_NoCompare(content, name) == TRUE

\* fsck, the file is read and hashed: expected_digest = found_digest.
FsckFile(content, name) == Sha256Hex(content) = name

\* OciDir::fsck, the loop over read_dir(BLOBDIR): todo are the entries not
\* yet visited, r the objects verified so far.  The order of a directory
\* is not specified; the error does not name the entry it met.
RECURSIVE FsckLoop(_, _, _, _)
FsckEntry(dir, sub, todo, r, name) ==
    IF NameLen(name) # BLOB_SHA256_LEN THEN FsckLoop(dir, sub, todo \ {name}, r)
    ELSE IF name \in sub THEN FsckLoop(dir, sub, todo \ {name}, r)
    ELSE IF ~ FsckFile(dir[name], name) THEN Err(<<"Expected blob digest">>)
    ELSE FsckLoop(dir, sub, todo \ {name}, r + 1)

FsckLoop(dir, sub, todo, r) ==
    IF todo = {} THEN Ok(r)
    ELSE FsckEntry(dir, sub, todo, r, CHOOSE name \in todo : TRUE)

fsck(exists, dir, sub) ==
    IF ~ exists THEN Err(<<"No such file">>)
    ELSE FsckLoop(dir, sub, DOMAIN dir \cup sub, 0)

\* ------------------------------------------------------------ the state
\* Most manifest descriptors the index is grown to.
MaxIndexLen == 2
\* Most layers pushed onto the manifest being built.
MaxLayers == 2
\* Most files the blob directory is grown to.
MaxBlobs == 3

Threads == {1}
Tags == {"latest", "v1"}
Platforms == {"linux/amd64"}
ManifestAnnotations == {<<>>, <<"ostree.version", "42.0">>}
Descriptions == {"root"}
Timestamps == {"2026-01-01T00:00:00Z"}

VARIABLES
    blobs,       \* the directory blobs/sha256: file name -> content
    index_json,  \* the file index.json
    writers,     \* writer -> the BlobWriter / GzipLayerWriter and its history
    manifest,    \* the ImageManifest the caller is building
    config,      \* the ImageConfiguration the caller is building
    pc,          \* thread -> where it is inside an OciDir call
    loc,         \* thread -> the locals of the call it is in
    ret,         \* thread -> what its last finished write_config, insert or replace returned
    latest,      \* tag -> the manifest last inserted under it (history)
    layout,      \* the file oci-layout
    blobdir,     \* whether the directory blobs/sha256 exists
    subdirs,     \* the entries of blobs/sha256 that are not regular files
    dest         \* the directory clone_to is given as destdir/p

\* What the writers and the index calls leave alone.
env == <<layout, blobdir, subdirs, dest>>

vars == <<blobs, index_json, writers, manifest, config, pc, loc, ret, latest,
          layout, blobdir, subdirs, dest>>

\* The content ensure gives the file oci-layout.
OciLayout == <<"{", "imageLayoutVersion", "1.0.0", "}">>

\* A path of the destination at which nothing exists.
NoDir == [exists |-> FALSE, layout |-> NoFile, blobdir |-> FALSE, blobs |-> <<>>,
          index |-> NoFile]

\* The blob directory has room for n more files.
RoomFor(n) == Cardinality(DOMAIN blobs) + n <= MaxBlobs

EmptySlot ==
    [kind |-> "none", st |-> "none", gw |-> GzipLayerWriterNew,
     written |-> <<>>, nwrites |-> 0, layer |-> NoLayer]

NoLocals ==
    [m |-> new_empty_manifest, desc |-> empty_config_descriptor, tag |-> <<>>,
     platform |-> "", index |-> <<>>]

\* What a call returned, with the arguments it was given and (history) the
\* index it found: <<>> when there was no index.json.
NoReturn ==
    [op |-> "none", ok |-> TRUE, val |-> <<>>, err |-> <<>>, arg |-> <<>>,
     before |-> <<>>]
Returned(op, arg, before, r) ==
    [op |-> op, ok |-> r.ok, val |-> r.val, err |-> r.err, arg |-> arg,
     before |-> before]

\* The manifests of the index as a reader parses them now; none when
\* index.json is absent.
IndexManifests ==
    IF index_json.exists THEN ParseIndex(index_json.content).val.manifests ELSE <<>>

\* An insertion under tag keeps the index within MaxIndexLen descriptors: it
\* has room for one more, or the insertion replaces the descriptor of the tag.
IndexRoomFor(tag) ==
    \/ Len(IndexManifests) < MaxIndexLen
    \/ /\ tag # <<>>
       /\ \E i \in 1..Len(IndexManifests) :
              descriptor_is_tagged(IndexManifests[i], tag[1])

\* OciDir::ensure on an empty directory, or OciDir::open on a layout that
\* holds an index without manifests.
Init ==
    /\ blobs = <<>>
    /\ index_json \in {NoFile,
                       File(IndexJson([schemaVersion |-> SCHEMA_VERSION,
                                       manifests |-> <<>>]))}
    /\ writers = [s \in Writers |-> EmptySlot]
    /\ manifest = new_empty_manifest
    /\ config = EmptyConfig
    /\ pc = [t \in Threads |-> "idle"]
    /\ loc = [t \in Threads |-> NoLocals]
    /\ ret = [t \in Threads |-> NoReturn]
    /\ latest = [tag \in Tags |-> <<>>]
    /\ layout = File(OciLayout)
    /\ blobdir = TRUE
    /\ subdirs = {}
    /\ dest = NoDir

\* ------------------------------------------------------------- writers
\* BlobWriter::new
CreateBlobWriter(s) ==
    /\ writers[s].st = "none"
    /\ writers' = [writers EXCEPT ![s] =
                      [EmptySlot EXCEPT !.kind = "blob", !.st = "open",
                                        !.gw.bw = BlobWriterNew]]
    /\ UNCHANGED <<blobs, index_json, manifest, config, pc, loc, ret, latest, env>>

\* OciDir::create_gzip_layer
CreateGzipLayer(s) ==
    /\ writers[s].st = "none"
    /\ writers' = [writers EXCEPT ![s] =
                      [EmptySlot EXCEPT !.kind = "gzip", !.st = "open",
                                        !.gw = GzipLayerWriterNew]]
    /\ UNCHANGED <<blobs, index_json, manifest, config, pc, loc, ret, latest, env>>

\* <BlobWriter as Write>::write
BlobWrite(s, srcbuf) ==
    /\ writers[s].kind = "blob" /\ writers[s].st = "open"
    /\ writers[s].nwrites < MaxWrites
    /\ writers' = [writers EXCEPT
                      ![s].gw.bw = BlobWriterWrite(@, srcbuf),
                      ![s].written = @ \o srcbuf,
                      ![s].nwrites = @ + 1]
    /\ UNCHANGED <<blobs, index_json, manifest, config, pc, loc, ret, latest, env>>

\* <GzipLayerWriter as Write>::write
GzipWrite(s, srcbuf, emit) ==
    /\ writers[s].kind = "gzip" /\ writers[s].st = "open"
    /\ writers[s].nwrites < MaxWrites
    /\ writers' = [writers EXCEPT
                      ![s].gw = GzipLayerWriterWrite(@, srcbuf, emit),
                      ![s].written = @ \o srcbuf,
                      ![s].nwrites = @ + 1]
    /\ UNCHANGED <<blobs, index_json, manifest, config, pc, loc, ret, latest, env>>

\* BlobWriter::complete
BlobComplete(s) ==
    /\ writers[s].kind = "blob" /\ writers[s].st = "open"
    /\ RoomFor(1)
    /\ LET done == BlobWriterComplete(blobs, writers[s].gw.bw)
       IN  /\ blobs' = done.dir
           /\ writers' = [writers EXCEPT
                             ![s].st = "done",
                             ![s].gw = GzipLayerWriterNew,
                             ![s].layer = [NoLayer EXCEPT !.blob = done.blob]]
    /\ UNCHANGED <<index_json, manifest, config, pc, loc, ret, latest, env>>

\* GzipLayerWriter::complete
GzipComplete(s) ==
    /\ writers[s].kind = "gzip" /\ writers[s].st = "open"
    /\ RoomFor(1)
    /\ LET done == GzipLayerWriterComplete(blobs, writers[s].gw)
       IN  /\ blobs' = done.dir
           /\ writers' = [writers EXCEPT
                             ![s].st = "done",
                             ![s].gw = GzipLayerWriterNew,
                             ![s].layer = done.layer]
    /\ UNCHANGED <<index_json, manifest, config, pc, loc, ret, latest, env>>

\* A drop that publishes what was written so far.
DropTempFile_Publish(dir, bw) == BlobWriterComplete(dir, bw).dir

\* A directory after a writer that was not completed is dropped: its
\* TempFile is removed, no entry of the directory changes.
DropTempFile(dir, bw) == dir

\* Drop of a BlobWriter or GzipLayerWriter that was not completed.
DropWriter(s) ==
    /\ writers[s].st = "open"
    /\ blobs' = DropTempFile(blobs, writers[s].gw.bw)
    /\ writers' = [writers EXCEPT ![s] =
                      [EmptySlot EXCEPT !.kind = writers[s].kind, !.st = "dropped",
                                        !.nwrites = writers[s].nwrites]]
    /\ UNCHANGED <<index_json, manifest, config, pc, loc, ret, latest, env>>

\* ------------------------------------------------- building a manifest
\* new_empty_manifest().build() and a fresh configuration; the caller may
\* set the manifest's annotations.
NewManifest(annotations) ==
    /\ manifest' = [new_empty_manifest EXCEPT !.annotations = annotations]
    /\ config' = EmptyConfig
    /\ UNCHANGED <<blobs, index_json, writers, pc, loc, ret, latest, env>>

\* OciDir::push_layer with the Layer a completed GzipLayerWriter returned.
PushLayer(s, description, annotations, now) ==
    /\ writers[s].kind = "gzip" /\ writers[s].st = "done"
    /\ Len(manifest.layers) < MaxLayers
    /\ manifest' = PushLayerManifest(manifest, writers[s].layer, annotations)
    /\ config' = PushLayerConfig(config, writers[s].layer, description, now)
    /\ writers' = [writers EXCEPT ![s].st = "pushed"]
    /\ UNCHANGED <<blobs, index_json, pc, loc, ret, latest, env>>

\* ------------------------------------------------------ OciDir calls
\* OciDir::write_config
WriteConfig(t) ==
    /\ pc[t] = "idle"
    /\ RoomFor(1)
    /\ LET w == write_json_blob(blobs, ConfigJson(config), MediaTypeImageConfig)
       IN  /\ blobs' = w.dir
           /\ ret' = [ret EXCEPT ![t] = Returned("write_config", <<>>, <<>>, Ok(w.desc))]
    /\ UNCHANGED <<index_json, writers, manifest, config, pc, loc, latest, env>>

\* insert_manifest, first step: the manifest is written as a blob and its
\* descriptor built.
InsertManifestBlob(t, m, tag, platform) ==
    LET w == write_json_blob(blobs, ManifestJson(m), MediaTypeImageManifest)
    IN  /\ blobs' = w.dir
        /\ loc' = [loc EXCEPT ![t] =
                      [m |-> m, desc |-> ManifestDescriptor(w.desc, tag, platform),
                       tag |-> tag, platform |-> platform, index |-> <<>>]]
        /\ pc' = [pc EXCEPT ![t] = "im_read"]
        /\ ret' = [ret EXCEPT ![t] = NoReturn]

\* OciDir::insert_manifest is called with the manifest being built.
InsertManifestBegin(t, tag, platform) ==
    /\ pc[t] = "idle"
    /\ RoomFor(1)
    /\ IndexRoomFor(tag)
    /\ InsertManifestBlob(t, manifest, tag, platform)
    /\ UNCHANGED <<index_json, writers, manifest, config, latest, env>>

\* insert_manifest, second step: self.read_index()
InsertManifestReadIndex(t) ==
    /\ pc[t] = "im_read"
    /\ LET index == read_index(index_json)
       IN  IF index.ok
           THEN /\ loc' = [loc EXCEPT ![t].index = index.val]
                /\ pc' = [pc EXCEPT ![t] = "im_write"]
                /\ ret' = ret
           ELSE /\ loc' = [loc EXCEPT ![t] = NoLocals]
                /\ pc' = [pc EXCEPT ![t] = "idle"]
                /\ ret' = [ret EXCEPT ![t] =
                              Returned("insert_manifest", <<>>, <<>>, index)]
    /\ UNCHANGED <<blobs, index_json, writers, manifest, config, latest, env>>

\* insert_manifest, last step: the new index replaces index.json atomically
\* and the descriptor is returned.
InsertManifestWriteIndex(t) ==
    /\ pc[t] = "im_write"
    /\ index_json' = File(IndexJson(
                         InsertIntoIndex(loc[t].index, loc[t].desc, loc[t].tag)))
    /\ ret' = [ret EXCEPT ![t] =
                  Returned("insert_manifest", <<loc[t].m, loc[t].tag>>,
                           loc[t].index, Ok(loc[t].desc))]
    /\ latest' = IF loc[t].tag = <<>> THEN latest
                 ELSE [latest EXCEPT ![loc[t].tag[1]] = <<loc[t].m>>]
    /\ pc' = [pc EXCEPT ![t] = "idle"]
    /\ loc' = [loc EXCEPT ![t] = NoLocals]
    /\ UNCHANGED <<blobs, writers, manifest, config, env>>

\* OciDir::insert_manifest_and_config, first step: write_config, and the
\* manifest is given the descriptor of the configuration.
InsertManifestAndConfigBegin(t, tag, platform) ==
    /\ pc[t] = "idle"
    /\ RoomFor(2)
    /\ IndexRoomFor(tag)
    /\ LET w == write_json_blob(blobs, ConfigJson(config), MediaTypeImageConfig)
       IN  /\ blobs' = w.dir
           /\ loc' = [loc EXCEPT ![t] =
                         [NoLocals EXCEPT !.m = [manifest EXCEPT !.config = w.desc],
                                          !.tag = tag, !.platform = platform]]
    /\ pc' = [pc EXCEPT ![t] = "imc_insert"]
    /\ ret' = [ret EXCEPT ![t] = NoReturn]
    /\ UNCHANGED <<index_json, writers, manifest, config, latest, env>>

\* insert_manifest_and_config, then: self.insert_manifest(manifest, ...)
InsertManifestAndConfigInsert(t) ==
    /\ pc[t] = "imc_insert"
    /\ InsertManifestBlob(t, loc[t].m, loc[t].tag, loc[t].platform)
    /\ UNCHANGED <<index_json, writers, manifest, config, latest, env>>

\* replace_with_single_manifest, first step: the manifest blob.
ReplaceBegin(t, platform) ==
    /\ pc[t] = "idle"
    /\ RoomFor(1)
    /\ LET w == write_json_blob(blobs, ManifestJson(manifest), MediaTypeImageManifest)
       IN  /\ blobs' = w.dir
           /\ loc' = [loc EXCEPT ![t] =
                         [NoLocals EXCEPT !.m = manifest,
                                          !.desc = ManifestDescriptor(w.desc, <<>>, platform),
                                          !.platform = platform]]
    /\ pc' = [pc EXCEPT ![t] = "rp_write"]
    /\ ret' = [ret EXCEPT ![t] = NoReturn]
    /\ UNCHANGED <<index_json, writers, manifest, config, latest, env>>

\* A replace that adds its manifest to the index it finds.
ReplaceWriteIndex_Keep(t) ==
    /\ pc[t] = "rp_write"
    /\ index_json' = File(IndexJson(
                         InsertIntoIndex(read_index(index_json).val, loc[t].desc, <<>>)))
    /\ ret' = [ret EXCEPT ![t] =
                  Returned("replace_with_single_manifest", <<loc[t].m>>,
                           read_index(index_json).val, Ok(<<>>))]
    /\ latest' = [tag \in Tags |-> <<>>]
    /\ pc' = [pc EXCEPT ![t] = "idle"]
    /\ loc' = [loc EXCEPT ![t] = NoLocals]
    /\ UNCHANGED <<blobs, writers, manifest, config, env>>

\* replace_with_single_manifest, last step: index.json is replaced.
ReplaceWriteIndex(t) ==
    /\ pc[t] = "rp_write"
    /\ index_json' = File(IndexJson(SingleManifestIndex(loc[t].desc)))
    /\ ret' = [ret EXCEPT ![t] =
                  Returned("replace_with_single_manifest", <<loc[t].m>>,
                           read_index(index_json).val, Ok(<<>>))]
    /\ latest' = [tag \in Tags |-> <<>>]
    /\ pc' = [pc EXCEPT ![t] = "idle"]
    /\ loc' = [loc EXCEPT ![t] = NoLocals]
    /\ UNCHANGED <<blobs, writers, manifest, config, env>>

\* ------------------------------------------------------ ensure, clone_to
\* The directory the store is rooted at.
Root == [exists |-> TRUE, layout |-> layout, blobdir |-> blobdir, blobs |-> blobs,
         index |-> index_json]

\* An ensure that writes oci-layout whether it exists or not.
EnsureLayout_Rewrite(file) == File(OciLayout)

\* OciDir::ensure on a directory d: blobs/sha256 is created when it is
\* missing, oci-layout is written when it is missing.
EnsureLayout(file) == IF file.exists THEN file ELSE File(OciLayout)
ensure(d) == [d EXCEPT !.blobdir = TRUE, !.layout = EnsureLayout(@)]

\* OciDir::ensure, by a caller that holds the store or does not hold it
\* yet ("fresh"); it returns the store.
Ensure(t) ==
    /\ pc[t] \in {"fresh", "idle"}
    /\ layout' = ensure(Root).layout
    /\ blobdir' = ensure(Root).blobdir
    /\ pc' = [pc EXCEPT ![t] = "idle"]
    /\ UNCHANGED <<blobs, index_json, writers, manifest, config, loc, ret, latest,
                   subdirs, dest>>

\* clone_to, destdir.create_dir(p) and destdir.open_dir(p)
CreateDir == [exists |-> TRUE, layout |-> NoFile, blobdir |-> FALSE, blobs |-> <<>>,
              index |-> NoFile]

\* A copy loop that replaces each file before the bytes arrive: the files
\* are left empty.
CopyBlobs_Truncated(selfdir) == [n \in DOMAIN selfdir |-> <<>>]

\* clone_to, the loop: each file of self.dir's blobs/sha256 is opened in
\* self.dir and self.dir.atomic_replace_with writes the copy to the same
\* path of self.dir.
CopyBlobs(selfdir) == [n \in DOMAIN selfdir |-> selfdir[n]]

\* OciDir::clone_to: the blob directory of self and the directory at
\* destdir/p afterwards.  create_dir fails when p exists; reading an entry
\* of blobs/sha256 that is a directory fails.
clone_to(selfdir, sub, d) ==
    IF d.exists
    THEN [ok |-> FALSE, err |-> <<"File exists">>, blobs |-> selfdir, dest |-> d]
    ELSE IF sub # {}
    THEN [ok |-> FALSE, err |-> <<"Is a directory">>, blobs |-> CopyBlobs(selfdir),
          dest |-> ensure(CreateDir)]
    ELSE [ok |-> TRUE, err |-> <<>>, blobs |-> CopyBlobs(selfdir),
          dest |-> ensure(CreateDir)]

CloneResult(c) == IF c.ok THEN Ok(<<>>) ELSE Err(c.err)

\* OciDir::clone_to; the store returned is the one at dest.
CloneToDone(t, c) ==
    /\ blobs' = c.blobs
    /\ dest' = c.dest
    /\ ret' = [ret EXCEPT ![t] = Returned("clone_to", <<blobs>>, <<>>, CloneResult(c))]

CloneTo(t) ==
    /\ pc[t] = "idle"
    /\ CloneToDone(t, clone_to(blobs, subdirs, dest))
    /\ UNCHANGED <<index_json, writers, manifest, config, pc, loc, latest,
                   layout, blobdir, subdirs>>

\* ------------------------------------------------------------------ fsck
\* OciDir::fsck
Fsck(t) ==
    /\ pc[t] = "idle"
    /\ ret' = [ret EXCEPT ![t] =
                  Returned("fsck", <<>>, <<>>, fsck(blobdir, blobs, subdirs))]
    /\ UNCHANGED <<blobs, index_json, writers, manifest, config, pc, loc, latest, env>>

\* What another program does to blobs/sha256, as the test does: a byte is
\* appended to a blob that was intact (write_all at the end of the file).
AppendByte(b) ==
    /\ \E name \in DOMAIN blobs :
           /\ FsckFile(blobs[name], name)
           /\ blobs' = [blobs EXCEPT ![name] = Append(@, b)]
    /\ UNCHANGED <<index_json, writers, manifest, config, pc, loc, ret, latest, env>>

\* The file is cut back to the length it had (set_len).
SetLen ==
    /\ \E name \in DOMAIN blobs :
           /\ NameLen(name) = BLOB_SHA256_LEN
           /\ ~ FsckFile(blobs[name], name)
           /\ blobs' = [blobs EXCEPT ![name] = SubSeq(@, 1, Len(@) - 1)]
    /\ UNCHANGED <<index_json, writers, manifest, config, pc, loc, ret, latest, env>>

\* Names of entries of blobs/sha256 that are not digests, and names of
\* directories in it, one of them as long as a digest.
OtherNames == {<<"x", "y">>}
SubdirNames == {<<"y">>, Sha256Hex(<<"y">>)}

\* A regular file that is no blob appears in blobs/sha256.
CreateOther(name, content) ==
    /\ name \notin DOMAIN blobs
    /\ blobs' = TempFileReplace(blobs, name, content)
    /\ UNCHANGED <<index_json, writers, manifest, config, pc, loc, ret, latest, env>>

\* A directory appears in blobs/sha256.
MakeSubdir(name) ==
    /\ name \notin subdirs
    /\ subdirs' = subdirs \cup {name}
    /\ UNCHANGED <<blobs, index_json, writers, manifest, config, pc, loc, ret, latest,
                   layout, blobdir, dest>>

\* ------------------------------------------------------ the specification
WriterStep(s) ==
    \/ CreateBlobWriter(s)
    \/ CreateGzipLayer(s)
    \/ \E srcbuf \in Chunks : BlobWrite(s, srcbuf)
    \/ \E srcbuf \in Chunks : \E emit \in 0..(MaxChunk * MaxWrites) :
           GzipWrite(s, srcbuf, emit)
    \/ BlobComplete(s)
    \/ GzipComplete(s)
    \/ DropWriter(s)

BuildStep ==
    \/ \E annotations \in ManifestAnnotations : NewManifest(annotations)
    \/ \E s \in Writers : \E description \in Descriptions : \E now \in Timestamps :
           PushLayer(s, description, <<>>, now)

CallStep(t) ==
    \/ WriteConfig(t)
    \/ \E tag \in {<<>>} \cup {<<x>> : x \in Tags} : \E platform \in Platforms :
           \/ InsertManifestBegin(t, tag, platform)
           \/ InsertManifestAndConfigBegin(t, tag, platform)
    \/ InsertManifestReadIndex(t)
    \/ InsertManifestWriteIndex(t)
    \/ InsertManifestAndConfigInsert(t)
    \/ \E platform \in Platforms : ReplaceBegin(t, platform)
    \/ ReplaceWriteIndex(t)

\* -------------------------------------------------------------- read_blob
\* Longest digest string a descriptor is given.
MaxDigestLen == 4
\* The digest strings of descriptors: written with these symbols and the
\* hex digest of the blob of one byte.
DigestSyms == {"sha256", ":", "/", ".", "x", Sha256Hex(<<"a">>)[1]}
DigestStrings == SeqsUpTo(DigestSyms, MaxDigestLen)

\* OciDir::read_blob with the descriptor the caller holds.
ReadBlob(t) ==
    /\ pc[t] = "idle"
    /\ ret' = [ret EXCEPT ![t] =
                  Returned("read_blob", <<loc[t].desc.digest>>, <<>>,
                           read_blob(blobs, loc[t].desc))]
    /\ UNCHANGED <<blobs, index_json, writers, manifest, config, pc, loc, latest, env>>

\* ------------------------------------------------ find_manifest_with_tag
\* find_manifest_with_tag, first step: index.json is opened and read.  The
\* file read is the one index.json named when it was opened.  ret.before
\* records (history) the manifest the tag named at that time.
FindOpened(t, tag) ==
    /\ loc' = [loc EXCEPT ![t] =
                  [NoLocals EXCEPT !.tag = <<tag>>,
                                   !.index = <<ParseIndex(index_json.content)>>]]
    /\ pc' = [pc EXCEPT ![t] = "fm_scan"]
    /\ ret' = [ret EXCEPT ![t] = [NoReturn EXCEPT !.before = latest[tag]]]

FindNotOpened(t, tag) ==
    /\ ret' = [ret EXCEPT ![t] =
                  Returned("find_manifest_with_tag", <<tag>>, latest[tag],
                           Err(<<"Failed to open index.json">>))]
    /\ UNCHANGED <<pc, loc>>

FindOpen(t, tag) ==
    /\ pc[t] = "idle"
    /\ IF index_json.exists THEN FindOpened(t, tag) ELSE FindNotOpened(t, tag)
    /\ UNCHANGED <<blobs, index_json, writers, manifest, config, latest, env>>

\* find_manifest_with_tag, second step: the descriptors read are scanned
\* and the blob of the first one that carries the tag is read.
FindScan(t) ==
    /\ pc[t] = "fm_scan"
    /\ ret' = [ret EXCEPT ![t] =
                  Returned("find_manifest_with_tag", loc[t].tag, ret[t].before,
                           FindInIndex(loc[t].index[1], blobs, loc[t].tag[1]))]
    /\ pc' = [pc EXCEPT ![t] = "idle"]
    /\ loc' = [loc EXCEPT ![t] = NoLocals]
    /\ UNCHANGED <<blobs, index_json, writers, manifest, config, latest, env>>

ReaderStep(t) ==
    \/ \E tag \in Tags : FindOpen(t, tag)
    \/ FindScan(t)

\* ensure, fsck and clone_to
MaintStep(t) ==
    \/ Ensure(t)
    \/ Fsck(t)
    \/ CloneTo(t)

\* One caller that creates one writer and makes any of the calls.
Next == WriterStep(1) \/ BuildStep \/ \E t \in Threads : CallStep(t)

Spec == Init /\ [][Next]_vars

\* Writers only, all of them, their calls interleaved in any order.
NextWriters == \E s \in Writers : WriterStep(s)

SpecWriters == Init /\ [][NextWriters]_vars

\* Every operation on the store: one writer, the calls of Spec with the
\* empty manifest and configuration, and ensure, fsck and clone_to.
NextStore ==
    \/ WriterStep(1)
    \/ \E t \in Threads : CallStep(t)
    \/ \E t \in Threads : MaintStep(t)

SpecStore == Init /\ [][NextStore]_vars

\* A directory in any state of initialisation: with or without oci-layout,
\* written by ensure or by another tool, with or without blobs/sha256.  The
\* caller holds no store until ensure has returned one.
OtherLayout == <<"{", "imageLayoutVersion", "1.0.0", "}", "\n">>
InitEnsure ==
    /\ blobs = <<>>
    /\ index_json \in {NoFile,
                       File(IndexJson([schemaVersion |-> SCHEMA_VERSION,
                                       manifests |-> <<>>]))}
    /\ writers = [s \in Writers |-> EmptySlot]
    /\ manifest = new_empty_manifest
    /\ config = EmptyConfig
    /\ pc = [t \in Threads |-> "fresh"]
    /\ loc = [t \in Threads |-> NoLocals]
    /\ ret = [t \in Threads |-> NoReturn]
    /\ latest = [tag \in Tags |-> <<>>]
    /\ layout \in {NoFile, File(OciLayout), File(OtherLayout)}
    /\ blobdir \in BOOLEAN
    /\ subdirs = {}
    /\ dest = NoDir

NextEnsure == \E t \in Threads : Ensure(t) \/ CallStep(t)

SpecEnsure == InitEnsure /\ [][NextEnsure]_vars

\* Two callers share the store.
Callers == {1, 2}
InitCallers ==
    /\ blobs = <<>>
    /\ index_json \in {NoFile,
                       File(IndexJson([schemaVersion |-> SCHEMA_VERSION,
                                       manifests |-> <<>>]))}
    /\ writers = [s \in Writers |-> EmptySlot]
    /\ manifest = new_empty_manifest
    /\ config = EmptyConfig
    /\ pc = [t \in Callers |-> "idle"]
    /\ loc = [t \in Callers |-> NoLocals]
    /\ ret = [t \in Callers |-> NoReturn]
    /\ latest = [tag \in Tags |-> <<>>]
    /\ layout = File(OciLayout)
    /\ blobdir = TRUE
    /\ subdirs = {}
    /\ dest = NoDir

\* One caller builds manifests and makes the calls of Spec; the other one
\* calls find_manifest_with_tag at any time.
NextReader ==
    \/ \E annotations \in ManifestAnnotations : NewManifest(annotations)
    \/ CallStep(1)
    \/ ReaderStep(2)

SpecReader == InitCallers /\ [][NextReader]_vars

\* Everything that publishes a blob: the BlobWriters, all of them, and the
\* calls that write a JSON blob.
NextPublish ==
    \/ \E s \in Writers : CreateBlobWriter(s)
    \/ \E s \in Writers : \E srcbuf \in Chunks : BlobWrite(s, srcbuf)
    \/ \E s \in Writers : BlobComplete(s)
    \/ \E t \in Threads : CallStep(t)

SpecPublish == Init /\ [][NextPublish]_vars

\* A caller's one call of insert_manifest.
InsertOnce(t, tag, platform) ==
    /\ ret[t].op = "none"
    /\ InsertManifestBegin(t, tag, platform)

\* Two callers, each calling insert_manifest once with a manifest built
\* before, the steps of the two calls interleaved in any order.
NextInserts ==
    \/ \E annotations \in ManifestAnnotations : NewManifest(annotations)
    \/ \E t \in Callers : \E tag \in {<<>>} \cup {<<x>> : x \in Tags} :
           \E platform \in Platforms : InsertOnce(t, tag, platform)
    \/ \E t \in Callers : InsertManifestReadIndex(t)
    \/ \E t \in Callers : InsertManifestWriteIndex(t)

SpecInserts == InitCallers /\ [][NextInserts]_vars

\* A caller's one call of replace_with_single_manifest.
ReplaceOnce(t, platform) ==
    /\ ret[t].op = "none"
    /\ ReplaceBegin(t, platform)

\* One caller builds manifests and calls insert_manifest any number of
\* times; the other makes one call, insert_manifest or
\* replace_with_single_manifest, with what the first has built.  The steps
\* of the calls are interleaved in any order.
NextRace ==
    \/ \E annotations \in ManifestAnnotations : NewManifest(annotations)
    \/ \E tag \in {<<>>} \cup {<<x>> : x \in Tags} : \E platform \in Platforms :
           \/ InsertManifestBegin(1, tag, platform)
           \/ InsertOnce(2, tag, platform)
    \/ \E platform \in Platforms : ReplaceOnce(2, platform)
    \/ \E t \in Callers : InsertManifestReadIndex(t)
    \/ \E t \in Callers : InsertManifestWriteIndex(t)
    \/ \E t \in Callers : ReplaceWriteIndex(t)

SpecRace == InitCallers /\ [][NextRace]_vars

\* GzipLayerWriters produce layers and the caller pushes them onto the
\* manifest and the configuration it builds.
NextBuild ==
    \/ \E s \in Writers :
           \/ CreateGzipLayer(s)
           \/ \E srcbuf \in Chunks : \E emit \in 0..(MaxChunk * MaxWrites) :
                  GzipWrite(s, srcbuf, emit)
           \/ GzipComplete(s)
    \/ BuildStep

SpecBuild == Init /\ [][NextBuild]_vars

\* One BlobWriter publishes a blob; read_blob is called with the
\* descriptor.
NextPaths ==
    \/ CreateBlobWriter(1)
    \/ \E srcbuf \in Chunks : BlobWrite(1, srcbuf)
    \/ BlobComplete(1)
    \/ \E t \in Threads : ReadBlob(t)

\* The caller holds a descriptor of any digest string.
InitPaths ==
    /\ blobs = <<>>
    /\ index_json = NoFile
    /\ writers = [s \in Writers |-> EmptySlot]
    /\ manifest = new_empty_manifest
    /\ config = EmptyConfig
    /\ pc = [t \in Threads |-> "idle"]
    /\ \E digest \in DigestStrings :
           loc = [t \in Threads |-> [NoLocals EXCEPT !.desc.digest = digest]]
    /\ ret = [t \in Threads |-> NoReturn]
    /\ latest = [tag \in Tags |-> <<>>]
    /\ layout = File(OciLayout)
    /\ blobdir = TRUE
    /\ subdirs = {}
    /\ dest = NoDir

SpecPaths == InitPaths /\ [][NextPaths]_vars


\* BlobWriters publish blobs, another program touches blobs/sha256, and
\* fsck is called in between.
NextFsck ==
    \/ \E s \in Writers :
           \/ CreateBlobWriter(s)
           \/ \E srcbuf \in Chunks : BlobWrite(s, srcbuf)
           \/ BlobComplete(s)
    \/ \E b \in Bytes : AppendByte(b)
    \/ SetLen
    \/ \E name \in OtherNames : \E content \in Chunks : CreateOther(name, content)
    \/ \E name \in SubdirNames : MakeSubdir(name)
    \/ \E t \in Threads : Fsck(t)

SpecFsck == Init /\ [][NextFsck]_vars


\* ------------------------------------------------------------ properties
\* The index a call found, as a sequence of descriptors.
Before(r) == IF r.before = <<>> THEN <<>> ELSE r.before[1].manifests
TaggedIn(manifests, tag) ==
    {i \in 1..Len(manifests) : descriptor_is_tagged(manifests[i], tag)}

\* The complete output of the encoder for the input data.
GzipStream(data) ==
    GzHeader \o DeflateCodes(data)
        \o <<GzEndOfStream, ToString(CrcUpdate(0, data)), ToString(Len(data))>>

\* C1: in every reachable state, every file under blobs/sha256 has a content
\* whose SHA-256 digest is the file's name.
BlobsNamedByDigest == \A n \in DOMAIN blobs : Sha256Hex(blobs[n]) = n

\* A writer wrote two bytes and was completed, the index names a manifest,
\* and the blob directory is full.
BlobsNamedByDigest_Witness ==
    /\ \E s \in Writers : writers[s].st = "done" /\ Len(writers[s].written) = 2
    /\ Len(IndexManifests) > 0
    /\ Cardinality(DOMAIN blobs) = MaxBlobs

\* C2: in every reachable state, the steps inside insert_manifest,
\* insert_manifest_and_config and replace_with_single_manifest included,
\* every descriptor of index.json names a manifest blob that is published.
IndexReferencesPublished ==
    \A i \in 1..Len(IndexManifests) :
        /\ \E n \in DOMAIN blobs : IndexManifests[i].digest = DigestId(n)
        /\ read_json_blob(blobs, IndexManifests[i]).ok

\* An insert_manifest is under way on an index that names a manifest, its own
\* blob written and the index not yet replaced.
IndexReferencesPublished_Witness ==
    \E t \in Threads :
        /\ pc[t] = "im_write"
        /\ Len(IndexManifests) > 0
        /\ \A i \in 1..Len(IndexManifests) :
               IndexManifests[i].digest # loc[t].desc.digest

\* C3: the index holds at most one manifest descriptor for each tag.
AtMostOnePerTag ==
    \A tag \in Tags : Cardinality(TaggedIn(IndexManifests, tag)) <= 1

\* insert_manifest returned after inserting another manifest under a tag the
\* index already held.
AtMostOnePerTag_Witness ==
    \E t \in Threads : \E tag \in Tags :
        /\ ret[t].op = "insert_manifest" /\ ret[t].ok
        /\ ret[t].arg[2] = <<tag>>
        /\ \E i \in TaggedIn(Before(ret[t]), tag) :
               Before(ret[t])[i].digest # ret[t].val.digest
        /\ TaggedIn(IndexManifests, tag) # {}

\* C4: a completed BlobWriter returned the SHA-256 of the bytes written to it
\* in call order and their number, and the blob of that name holds them.
BlobWriterDigestAndSize ==
    \A s \in Writers :
        (writers[s].kind = "blob" /\ writers[s].st = "done") =>
            /\ writers[s].layer.blob.sha256 = Sha256Hex(writers[s].written)
            /\ writers[s].layer.blob.size = Len(writers[s].written)
            /\ writers[s].layer.blob.sha256 \in DOMAIN blobs
            /\ blobs[writers[s].layer.blob.sha256] = writers[s].written

\* A BlobWriter was completed after two writes of different bytes.
BlobWriterDigestAndSize_Witness ==
    \E s \in Writers :
        /\ writers[s].kind = "blob" /\ writers[s].st = "done"
        /\ writers[s].nwrites = 2
        /\ Len(writers[s].written) = 2
        /\ writers[s].written[1] # writers[s].written[2]

\* C5: a step that creates a writer, writes to it or drops it, any step of
\* a writer but its completion, leaves the blob directory as it was.
UncompletedWriterLeavesNoEntry ==
    [][\A s \in Writers :
           (writers'[s] # writers[s] /\ writers'[s].st # "done") => blobs' = blobs]_vars

\* A writer was dropped after bytes were written to it.
UncompletedWriterLeavesNoEntry_Witness ==
    \E s \in Writers : writers[s].st = "dropped" /\ writers[s].nwrites > 0

\* C6: the blob of a completed GzipLayerWriter is the encoder's whole output
\* for the bytes written, it decompresses to them, uncompressed_sha256 is
\* their digest, and the Blob describes the compressed bytes.
GzipLayerRoundTrip ==
    \A s \in Writers :
        (writers[s].kind = "gzip" /\ writers[s].st \in {"done", "pushed"}) =>
            /\ writers[s].layer.blob.sha256 \in DOMAIN blobs
            /\ blobs[writers[s].layer.blob.sha256] = GzipStream(writers[s].written)
            /\ Gunzip(blobs[writers[s].layer.blob.sha256])
                   = [ok |-> TRUE, data |-> writers[s].written]
            /\ writers[s].layer.uncompressed_sha256 = Sha256Hex(writers[s].written)
            /\ writers[s].layer.blob.sha256
                   = Sha256Hex(blobs[writers[s].layer.blob.sha256])
            /\ writers[s].layer.blob.size = Len(blobs[writers[s].layer.blob.sha256])

\* A GzipLayerWriter was completed after two writes of one byte each.
GzipLayerRoundTrip_Witness ==
    \E s \in Writers :
        /\ writers[s].kind = "gzip" /\ writers[s].st = "done"
        /\ writers[s].nwrites = 2
        /\ Len(writers[s].written) = 2

\* C7: insert_manifest under a tag the index held leaves the length of the
\* index unchanged, the old descriptor of the tag gone and the new one last;
\* an untagged insertion, or one under a new tag, appends one descriptor and
\* removes none.
InsertCountsByTag ==
    \A t \in Threads :
        (ret[t].op = "insert_manifest" /\ ret[t].ok) =>
            IF ret[t].arg[2] # <<>> /\ TaggedIn(Before(ret[t]), ret[t].arg[2][1]) # {}
            THEN /\ Len(IndexManifests) = Len(Before(ret[t]))
                 /\ IndexManifests[Len(IndexManifests)] = ret[t].val
                 /\ TaggedIn(IndexManifests, ret[t].arg[2][1]) = {Len(IndexManifests)}
                 /\ \A i \in 1..Len(Before(ret[t])) :
                        i \notin TaggedIn(Before(ret[t]), ret[t].arg[2][1]) =>
                            \E j \in 1..(Len(IndexManifests) - 1) :
                                IndexManifests[j] = Before(ret[t])[i]
            ELSE IndexManifests = Append(Before(ret[t]), ret[t].val)

\* insert_manifest returned after inserting under a tag that the index, of
\* two descriptors, already held.
InsertCountsByTag_Witness ==
    \E t \in Threads :
        /\ ret[t].op = "insert_manifest" /\ ret[t].ok
        /\ ret[t].arg[2] # <<>>
        /\ Len(Before(ret[t])) = 2
        /\ TaggedIn(Before(ret[t]), ret[t].arg[2][1]) # {}

\* C8: for every tag, find_manifest_with_tag returns the manifest last
\* inserted under the tag when the index holds a descriptor with that tag,
\* and the "not found" result, not an error, in every other state of the
\* store: no index.json, an index without manifests, an index without the tag.
FindReturnsLatestOrNotFound ==
    \A tag \in Tags :
        find_manifest_with_tag(index_json, blobs, tag) =
            IF TaggedIn(IndexManifests, tag) # {} THEN Ok(latest[tag]) ELSE Ok(<<>>)

\* C9: read_manifest and read_manifest_and_descriptor succeed exactly when
\* the index holds one manifest descriptor; without an index, with none or
\* with several they fail, naming the number found.
ReadManifestIffSingle ==
    LET n  == Len(IndexManifests)
        r  == read_manifest(index_json, blobs)
        rd == read_manifest_and_descriptor(index_json, blobs)
    IN  /\ r.ok <=> (index_json.exists /\ n = 1)
        /\ rd.ok <=> (index_json.exists /\ n = 1)
        /\ (index_json.exists /\ n = 0) => r.err = <<"No manifests found">>
        /\ n > 1 => r.err = <<"Expected exactly 1 manifest, found", ToString(n)>>
        /\ rd.ok => /\ rd.val[2] = IndexManifests[1]
                    /\ r.val = rd.val[1]

\* insert_manifest returned on an index that held the single untagged
\* descriptor a replace_with_single_manifest leaves: read_manifest fails.
ReadManifestIffSingle_Witness ==
    \E t \in Threads :
        /\ ret[t].op = "insert_manifest" /\ ret[t].ok
        /\ Len(Before(ret[t])) = 1
        /\ Before(ret[t])[1].annotations = <<>>
        /\ Len(IndexManifests) = 2
        /\ ~ read_manifest(index_json, blobs).ok

\* C10: when replace_with_single_manifest(m, platform) has returned, the
\* index holds one descriptor, untagged, of m's blob, and read_manifest
\* returns m.
ReplaceLeavesSingleManifest ==
    \A t \in Threads :
        ret[t].op = "replace_with_single_manifest" =>
            /\ index_json.exists
            /\ Len(IndexManifests) = 1
            /\ IndexManifests[1].annotations = <<>>
            /\ IndexManifests[1].digest
                   = DigestId(Sha256Hex(ManifestJson(ret[t].arg[1])))
            /\ Sha256Hex(ManifestJson(ret[t].arg[1])) \in DOMAIN blobs
            /\ blobs[Sha256Hex(ManifestJson(ret[t].arg[1]))]
                   = ManifestJson(ret[t].arg[1])
            /\ read_manifest(index_json, blobs) = Ok(ret[t].arg[1])

\* replace_with_single_manifest returned on an index that held two
\* descriptors, one of them tagged.
ReplaceLeavesSingleManifest_Witness ==
    \E t \in Threads : \E tag \in Tags :
        /\ ret[t].op = "replace_with_single_manifest"
        /\ Len(Before(ret[t])) = 2
        /\ TaggedIn(Before(ret[t]), tag) # {}

\* The regular files of blobs/sha256 whose name is as long as a digest.
BlobEntries == {n \in DOMAIN blobs : NameLen(n) = BLOB_SHA256_LEN}

\* C11: fsck succeeds, with the number of regular files of blobs/sha256
\* whose name has 64 characters, exactly when the content of each of them
\* hashes to its name; files of other names and directories are neither
\* counted nor make it fail.
FsckVerifiesBlobs ==
    IF \A n \in BlobEntries : Sha256Hex(blobs[n]) = n
    THEN fsck(blobdir, blobs, subdirs) = Ok(Cardinality(BlobEntries))
    ELSE ~ fsck(blobdir, blobs, subdirs).ok

\* fsck failed on a blob with a byte appended; the blob has been cut back
\* and fsck succeeds again, counting the blobs and neither the file of
\* another name nor the directory named like a digest.
FsckVerifiesBlobs_Witness ==
    \E t \in Threads :
        /\ ret[t].op = "fsck" /\ ~ ret[t].ok
        /\ BlobEntries # {}
        /\ \A n \in BlobEntries : Sha256Hex(blobs[n]) = n
        /\ DOMAIN blobs # BlobEntries
        /\ Sha256Hex(<<"y">>) \in subdirs
        /\ fsck(blobdir, blobs, subdirs) = Ok(Cardinality(BlobEntries))

\* C12: when clone_to has succeeded, the store it returned holds, for every
\* blob the source held when it was called, a blob of that name with the
\* same content.
CloneHoldsSourceBlobs ==
    \A t \in Threads :
        (ret[t].op = "clone_to" /\ ret[t].ok) =>
            \A n \in DOMAIN ret[t].arg[1] :
                /\ n \in DOMAIN dest.blobs
                /\ dest.blobs[n] = ret[t].arg[1][n]

\* The parts of a digest string before and after its first ':'.
AlgPart(d) == SubSeq(d, 1, FindToken(d, 1, ":") - 1)
HashPart(d) == SubSeq(d, FindToken(d, 1, ":") + 1, Len(d))
HasSeparator(s) == \E i \in 1..Len(s) : s[i] = "/"
HasParentRef(s) == \E i \in 1..(Len(s) - 1) : s[i] = "." /\ s[i + 1] = "."

\* The digest strings read_blob is to refuse: no ':', an algorithm other
\* than sha256, or a '/' or '..' in the algorithm or in the hash.
RefusedDigest(d) ==
    \/ FindToken(d, 1, ":") = 0
    \/ AlgPart(d) # <<"sha256">>
    \/ HasSeparator(AlgPart(d)) \/ HasParentRef(AlgPart(d))
    \/ HasSeparator(HashPart(d)) \/ HasParentRef(HashPart(d))

\* C13: read_blob fails, and opens no file, for every descriptor whose
\* digest has no ':', names an algorithm other than sha256, or has a '/' or
\* a '..' in its algorithm or its hash.
ReadBlobRefusesBadDigests ==
    \A t \in Threads :
        (ret[t].op = "read_blob" /\ RefusedDigest(ret[t].arg[1])) => ~ ret[t].ok

\* C14: the layers of the manifest, the diff_ids and the history of the
\* configuration have the same length, none on the empty pair, and each
\* push_layer appends one element to each of them, the earlier ones kept:
\* a descriptor with the digest and the size of the Layer's blob, and
\* "sha256:" followed by the Layer's uncompressed_sha256.
PushLayerAppendsOne ==
    /\ [](/\ Len(manifest.layers) = Len(config.diff_ids)
          /\ Len(manifest.layers) = Len(config.history))
    /\ [][\A s \in Writers :
              (writers[s].st = "done" /\ writers'[s].st = "pushed") =>
                  /\ Len(manifest'.layers) = Len(manifest.layers) + 1
                  /\ SubSeq(manifest'.layers, 1, Len(manifest.layers)) = manifest.layers
                  /\ manifest'.layers[Len(manifest'.layers)].digest
                         = <<"sha256", ":">> \o writers[s].layer.blob.sha256
                  /\ manifest'.layers[Len(manifest'.layers)].size
                         = writers[s].layer.blob.size
                  /\ config'.diff_ids
                         = Append(config.diff_ids,
                                  <<"sha256", ":">> \o writers[s].layer.uncompressed_sha256)
                  /\ Len(config'.history) = Len(config.history) + 1
                  /\ SubSeq(config'.history, 1, Len(config.history)) = config.history]_vars
    /\ [][(manifest' # manifest /\ \A s \in Writers : writers'[s] = writers[s]) =>
              /\ manifest'.layers = <<>>
              /\ config'.diff_ids = <<>> /\ config'.history = <<>>]_vars

\* Two layers of different content have been pushed.
PushLayerAppendsOne_Witness ==
    /\ Len(manifest.layers) = 2
    /\ manifest.layers[1] # manifest.layers[2]
    /\ config.diff_ids[1] # config.diff_ids[2]
    /\ \A s \in Writers : writers[s].st = "pushed"

\* C15: ensure on an initialised directory, whatever blobs and index it
\* holds, leaves oci-layout, every blob and index.json as they are; on any
\* directory it leaves the blobs and the index as they are, and a second
\* ensure changes nothing the first has done.
EnsureIsIdempotent ==
    /\ ensure(ensure(Root)) = ensure(Root)
    /\ (layout.exists /\ blobdir) => ensure(Root) = Root
    /\ ensure(Root).blobs = blobs
    /\ ensure(Root).index = index_json
    /\ \A t \in Threads : pc[t] # "fresh" => ensure(Root) = Root

\* ensure returned the store on a directory whose oci-layout another tool
\* wrote, the store holds two blobs and an index with a manifest.
EnsureIsIdempotent_Witness ==
    /\ \A t \in Threads : pc[t] = "idle"
    /\ layout = File(OtherLayout)
    /\ Cardinality(DOMAIN blobs) = 2
    /\ Len(IndexManifests) = 1

\* The bytes a completed writer published: what was written to a
\* BlobWriter, the encoder's stream of what was written to a GzipLayerWriter.
Published(w) == IF w.kind = "blob" THEN w.written ELSE GzipStream(w.written)

\* C16: with the writes and completions of two writers interleaved in any
\* order, the staging file, the hash and the size of an open BlobWriter are
\* those of the bytes written to it alone, and the digest and size each
\* completed writer returned are those of its own bytes, which the blob of
\* that digest holds, whatever the other writer has published since.
WritersDoNotInterfere ==
    \A s \in Writers :
        /\ (writers[s].kind = "blob" /\ writers[s].st = "open") =>
               /\ writers[s].gw.bw.target = writers[s].written
               /\ writers[s].gw.bw.hash = HasherUpdate(HasherNew, writers[s].written)
               /\ writers[s].gw.bw.size = Len(writers[s].written)
        /\ writers[s].st = "done" =>
               /\ writers[s].layer.blob.sha256 = Sha256Hex(Published(writers[s]))
               /\ writers[s].layer.blob.size = Len(Published(writers[s]))
               /\ writers[s].layer.blob.sha256 \in DOMAIN blobs
               /\ blobs[writers[s].layer.blob.sha256] = Published(writers[s])

\* Two BlobWriters were completed, each after two writes, with different
\* bytes.
WritersDoNotInterfere_Witness ==
    /\ \A s \in Writers :
           /\ writers[s].kind = "blob" /\ writers[s].st = "done"
           /\ writers[s].nwrites = 2 /\ Len(writers[s].written) = 2
    /\ \E s1, s2 \in Writers : writers[s1].written # writers[s2].written
    /\ Cardinality(DOMAIN blobs) = 2


\* C17: index.json is at every point a complete index document, the one
\* before or the one after an update; the document a reader of
\* find_manifest_with_tag took is complete too; and when the tag named a
\* manifest at the time the reader opened index.json, the call returns that
\* manifest (the one before a concurrent reassignment of the tag, or the one
\* after it), never 'not found' and never an error, whatever the other
\* caller does before the reader has finished.
ReaderSeesWholeIndex ==
    /\ index_json.exists =>
           /\ ParseIndex(index_json.content).ok
           /\ IndexJson(ParseIndex(index_json.content).val) = index_json.content
    /\ \A t \in Callers :
           /\ pc[t] = "fm_scan" => loc[t].index[1].ok
           /\ (ret[t].op = "find_manifest_with_tag" /\ ret[t].before # <<>>) =>
                  /\ ret[t].ok
                  /\ ret[t].val = ret[t].before

\* The reader returned the manifest m1 the tag named when it opened the
\* index; the other caller's insert_manifest(m2, Some(tag)) found the tag
\* on m1 and has returned, and the tag now names m2.
ReaderSeesWholeIndex_Witness ==
    \E t, u \in Callers :
        /\ ret[t].op = "find_manifest_with_tag" /\ ret[t].ok
        /\ ret[t].val # <<>> /\ ret[t].val = ret[t].before
        /\ ret[u].op = "insert_manifest" /\ ret[u].ok
        /\ ret[u].arg[2] = ret[t].arg
        /\ ret[u].arg[1] # ret[t].val[1]
        /\ ret[u].before # <<>>
        /\ Cardinality(TaggedIn(ret[u].before[1].manifests, ret[t].arg[1])) = 1
        /\ latest[ret[t].arg[1]] = <<ret[u].arg[1]>>
        /\ find_manifest_with_tag(index_json, blobs, ret[t].arg[1])
               = Ok(<<ret[u].arg[1]>>)


\* The manifest descriptors of the index a call found.
FoundDescriptors(r) ==
    IF r.before = <<>> THEN {}
    ELSE {r.before[1].manifests[i] : i \in 1..Len(r.before[1].manifests)}

\* C18: no step of a writer, of write_config, insert_manifest,
\* insert_manifest_and_config, replace_with_single_manifest, ensure, fsck
\* or clone_to removes a blob or changes its content; and after
\* insert_manifest or replace_with_single_manifest has rewritten the index,
\* the blob of every manifest descriptor of the index it found can still be
\* read, the ones that are no longer referenced included.
BlobsAreImmutable ==
    /\ [][\A n \in DOMAIN blobs :
              n \in DOMAIN blobs' /\ blobs'[n] = blobs[n]]_vars
    /\ [](\A t \in Threads :
              (ret[t].op \in {"insert_manifest", "replace_with_single_manifest"}
                   /\ ret[t].ok) =>
                  \A d \in FoundDescriptors(ret[t]) :
                      /\ read_blob(blobs, d).ok
                      /\ Sha256Hex(read_blob(blobs, d).val) = HashPart(d.digest))

\* insert_manifest gave a tag to another manifest: the descriptor that
\* carried the tag is no longer in the index and its blob, the manifest it
\* described, is still read.
BlobsAreImmutable_Witness ==
    \E t \in Threads :
        /\ ret[t].op = "insert_manifest" /\ ret[t].ok
        /\ ret[t].arg[2] # <<>>
        /\ \E d \in FoundDescriptors(ret[t]) :
               /\ descriptor_is_tagged(d, ret[t].arg[2][1])
               /\ \A i \in 1..Len(IndexManifests) :
                      IndexManifests[i].digest # d.digest
               /\ read_json_blob(blobs, d).ok
               /\ read_json_blob(blobs, d).val # ret[t].arg[1]


\* The contents held by the files of a directory.
Contents(dir) == {dir[n] : n \in DOMAIN dir}

\* The contents published by a step: the bytes of the writers it completes
\* and the JSON documents write_json_blob is given by the calls it makes.
PublishedInStep ==
    {Published(writers'[s]) :
        s \in {s \in Writers : writers[s].st = "open" /\ writers'[s].st = "done"}}
    \cup {ManifestJson(loc'[t].m) :
        t \in {t \in Threads : pc[t] # pc'[t] /\ pc'[t] \in {"im_read", "rp_write"}}}
    \cup {ConfigJson(config) :
        t \in {t \in Threads :
                  \/ pc[t] = "idle" /\ pc'[t] = "imc_insert"
                  \/ ret'[t] # ret[t] /\ ret'[t].op = "write_config"}}

\* C19: a step that publishes (a writer completed, a JSON blob written)
\* keeps every blob and adds exactly the contents it publishes that were not
\* stored yet; when they all were, the blob directory is unchanged.  So no
\* two blobs hold the same content, and the count fsck returns is the
\* number of distinct contents published, not the number of publications.
PublishingIsIdempotent ==
    /\ [][/\ DOMAIN blobs \subseteq DOMAIN blobs'
          /\ Contents(blobs') = Contents(blobs) \cup PublishedInStep
          /\ PublishedInStep \subseteq Contents(blobs) => blobs' = blobs]_vars
    /\ [](/\ Cardinality(DOMAIN blobs) = Cardinality(Contents(blobs))
          /\ fsck(blobdir, blobs, subdirs) = Ok(Cardinality(Contents(blobs))))

\* Two writers were completed with the same bytes, and insert_manifest has
\* put under a tag the manifest that the index it found already held under
\* that tag: four publications, and the store holds two blobs.
PublishingIsIdempotent_Witness ==
    /\ \A s \in Writers : writers[s].st = "done" /\ writers[s].written # <<>>
    /\ \A s1, s2 \in Writers : writers[s1].written = writers[s2].written
    /\ \E t \in Threads :
           /\ ret[t].op = "insert_manifest" /\ ret[t].ok
           /\ ret[t].arg[2] # <<>>
           /\ \E d \in FoundDescriptors(ret[t]) :
                  /\ descriptor_is_tagged(d, ret[t].arg[2][1])
                  /\ d.digest = ret[t].val.digest
    /\ Cardinality(DOMAIN blobs) = 2


\* The manifest descriptors index.json holds now.
IndexDescriptors == {IndexManifests[i] : i \in 1..Len(IndexManifests)}

\* Both callers' insert_manifest returned a descriptor, the two untagged or
\* with different tags.
BothInserted(t, u) ==
    /\ t # u
    /\ ret[t].op = "insert_manifest" /\ ret[t].ok
    /\ ret[u].op = "insert_manifest" /\ ret[u].ok
    /\ ret[t].arg[2] = <<>> \/ ret[u].arg[2] = <<>> \/ ret[t].arg[2] # ret[u].arg[2]

\* C20: of two insert_manifest calls that returned descriptors, untagged or
\* with different tags: when one read the index after the other had written
\* it (the calls ran one after the other) the final index holds both
\* descriptors; when each read the index before the other wrote it and the
\* descriptors differ, the final index lacks one of them; the descriptor of
\* the call that wrote last is always there.
LostUpdateOnlyWhenInterleaved ==
    \A t, u \in Callers :
        BothInserted(t, u) =>
            /\ ret[t].val \in FoundDescriptors(ret[u]) =>
                   {ret[t].val, ret[u].val} \subseteq IndexDescriptors
            /\ (/\ ret[t].val # ret[u].val
                /\ ret[t].val \notin FoundDescriptors(ret[u])
                /\ ret[u].val \notin FoundDescriptors(ret[t])) =>
                   ~ ({ret[t].val, ret[u].val} \subseteq IndexDescriptors)
            /\ {ret[t].val, ret[u].val} \cap IndexDescriptors # {}

\* Both calls returned success, with different tags, and the index lacks
\* the descriptor one of them returned.
LostUpdateOnlyWhenInterleaved_Witness ==
    \E t, u \in Callers :
        /\ BothInserted(t, u)
        /\ ret[t].arg[2] # <<>> /\ ret[u].arg[2] # <<>>
        /\ ret[t].val \notin IndexDescriptors
        /\ ret[u].val \in IndexDescriptors
        /\ Len(IndexManifests) = 1


\* C21: every manifest descriptor of the index names a manifest blob that
\* is read, and every layer descriptor of that manifest names a blob of the
\* store whose length in bytes is the descriptor's size and whose digest is
\* the descriptor's.
LayersNamePresentBlobs ==
    \A i \in 1..Len(IndexManifests) :
        LET m == read_json_blob(blobs, IndexManifests[i])
        IN  /\ m.ok
            /\ \A j \in 1..Len(m.val.layers) :
                   LET b == read_blob(blobs, m.val.layers[j])
                   IN  /\ b.ok
                       /\ Len(b.val) = m.val.layers[j].size
                       /\ DigestId(Sha256Hex(b.val)) = m.val.layers[j].digest

\* The index references two different manifests, one of them under a tag;
\* one has the layer a completed GzipLayerWriter returned, of two bytes
\* written, and the blob of that layer is the stream of those bytes.
LayersNamePresentBlobs_Witness ==
    /\ Len(IndexManifests) = 2
    /\ IndexManifests[1].digest # IndexManifests[2].digest
    /\ \E tag \in Tags : Cardinality(TaggedIn(IndexManifests, tag)) = 1
    /\ \E i \in 1..Len(IndexManifests) :
           LET m == read_json_blob(blobs, IndexManifests[i])
           IN  /\ m.ok
               /\ Len(m.val.layers) = 1
               /\ read_blob(blobs, m.val.layers[1]).ok
               /\ Gunzip(read_blob(blobs, m.val.layers[1]).val).ok
               /\ Len(Gunzip(read_blob(blobs, m.val.layers[1]).val).data) = 2


\* C22: with the steps of unsynchronized insert_manifest and
\* replace_with_single_manifest calls of two callers interleaved in any
\* order, index.json holds in every state at most one descriptor for each
\* tag, and so does every index a call has read and is about to rewrite.
RacesKeepOnePerTag ==
    /\ \A tag \in Tags : Cardinality(TaggedIn(IndexManifests, tag)) <= 1
    /\ \A t \in Callers : \A tag \in Tags :
           (pc[t] = "im_write" /\ loc[t].index # <<>>) =>
               Cardinality(TaggedIn(loc[t].index[1].manifests, tag)) <= 1

\* Two insert_manifest calls gave the same tag to different manifests,
\* neither having read the index the other wrote: both returned a
\* descriptor, the index lacks one of them and holds the tag once.
RacesKeepOnePerTag_Witness ==
    \E t, u \in Callers : \E tag \in Tags :
        /\ t # u
        /\ ret[t].op = "insert_manifest" /\ ret[t].ok /\ ret[t].arg[2] = <<tag>>
        /\ ret[u].op = "insert_manifest" /\ ret[u].ok /\ ret[u].arg[2] = <<tag>>
        /\ ret[t].val.digest # ret[u].val.digest
        /\ ret[t].val \notin FoundDescriptors(ret[u])
        /\ ret[u].val \notin FoundDescriptors(ret[t])
        /\ \E d \in FoundDescriptors(ret[t]) : descriptor_is_tagged(d, tag)
        /\ \E d \in FoundDescriptors(ret[u]) : descriptor_is_tagged(d, tag)
        /\ ret[t].val \notin IndexDescriptors
        /\ Cardinality(TaggedIn(IndexManifests, tag)) = 1


\* The path parse_descriptor_to_path makes of a digest string, below BLOBDIR.
PathOf(digest) == parse_descriptor_to_path([digest |-> digest])

\* C23: whenever parse_descriptor_to_path accepts the digest read_blob was
\* given, the name it joins to blobs/sha256 is one path component: not
\* empty, without '/', and neither '.' nor '..'; and when read_blob
\* succeeds, what it returns is the file of that name in blobs/sha256.
ReadBlobOpensOneComponent ==
    \A t \in Threads :
        ret[t].op = "read_blob" =>
            /\ PathOf(ret[t].arg[1]).ok =>
                   /\ PathOf(ret[t].arg[1]).val # <<>>
                   /\ ~ HasSeparator(PathOf(ret[t].arg[1]).val)
                   /\ PathOf(ret[t].arg[1]).val \notin {<<".">>, <<".", ".">>}
            /\ ret[t].ok =>
                   /\ PathOf(ret[t].arg[1]).ok
                   /\ PathOf(ret[t].arg[1]).val \in DOMAIN blobs
                   /\ ret[t].val = blobs[PathOf(ret[t].arg[1]).val]

\* read_blob succeeded on a digest whose hash part holds a '/': the file it
\* read is the blob named by the last component.
ReadBlobOpensOneComponent_Witness ==
    \E t \in Threads :
        /\ ret[t].op = "read_blob" /\ ret[t].ok
        /\ HasSeparator(HashPart(ret[t].arg[1]))
        /\ PathOf(ret[t].arg[1]).val = Sha256Hex(<<"a">>)
        /\ ret[t].val = <<"a">>

====
